---- MODULE Spec2Model ----
(***************************************************************************)
(* A model of the SOCKS5 server of src/socks5.go: the server lifecycle     *)
(* (ListenAndServe, Serve, Shutdown), the accept goroutine, and the        *)
(* per-connection task running ServeConn.                                  *)
(*                                                                         *)
(* Goroutines are processes with a program counter each.  Unbuffered       *)
(* channel operations are rendezvous: a send and the matching receive are  *)
(* one step.  A Go select with several ready cases is a nondeterministic   *)
(* choice among them.                                                      *)
(***************************************************************************)
EXTENDS Integers, Sequences, FiniteSets, TLC

\* Bounds of the model.
MaxAccepts == 1      \* connections the listener hands out (Spec)
MaxConns == 2        \* connections served by direct calls of ServeConn (ConnSpec)
MaxShutdowns == 2    \* calls of Shutdown
MaxServed == 2       \* connections the listener hands out (ServeSpec)
MaxAuthMethods == 3  \* length of Config.AuthMethods given to New (NewSpec)

\* src/socks5.go:12
socks5Version == 5

\* src/socks5.go:188, the reply code sent for an unrecognized address type
addrTypeNotSupported == 8

Callers == 1..MaxShutdowns

\* The bytes a client may send as the version byte.
VersionBytes == {4, socks5Version}

VARIABLES
    config,          \* *Config, as far as New reads and writes it
    authMethods,     \* s.authMethods, the registry: method code -> Authenticator
    given,           \* history: the AuthMethods of the Config as passed to New
    cred,            \* a call of CredentialStore.Valid and its result
    mode,            \* how the server is used: "ListenAndServe", "Serve" or "ServeConn"
    hasErrorHandler, \* config.ErrorHandler != nil
    shutdown,        \* the channel s.shutdown: "open" or "closed"
    listener,        \* the field s.listener: "nil" or "l"
    lock,            \* holder of s.lock: Free, ByMain or ByCaller(p)
    lstate,          \* the listening socket l: "none", "open" or "closed"
    mainPc,          \* the goroutine running ListenAndServe / Serve
    serveRet,        \* what ListenAndServe / Serve returned
    acceptPc,        \* the accept goroutine of Serve
    acceptErr,       \* the error the last l.Accept() returned
    acceptCalls,     \* how many connections l.Accept() has returned
    shPc,            \* the callers of Shutdown
    conn,            \* per connection: the task running ServeConn
    calledIdle,      \* history: a Shutdown call began while Serve was idle in its loop
    errBeforeShutdown \* history: Accept failed before any Shutdown call began

vars == <<config, authMethods, given, cred, mode, hasErrorHandler,
          shutdown, listener, lock, lstate, mainPc,
          serveRet, acceptPc, acceptErr, acceptCalls, shPc, conn,
          calledIdle, errBeforeShutdown>>

\* The connections of the run.
Conns == DOMAIN conn

serverVars == <<config, authMethods, given, cred, mode, hasErrorHandler,
                shutdown, listener, lock, lstate, mainPc,
                serveRet, acceptPc, acceptErr, acceptCalls, shPc,
                calledIdle, errBeforeShutdown>>

----------------------------------------------------------------------------
\* Errors.  Every error value is a record, nil included.

Nil == [msg |-> "nil"]
PlainError(m) == [msg |-> m]

NoRequest == <<>>
RequestOf(c) == <<c>>

\* A wrapError that leaves the request out.
wrapErrorNoRequest(err, c, req) == [Err |-> err, Conn |-> c, Request |-> NoRequest]

\* src/unnamed/part_000:14-20
wrapError(err, c, req) == [Err |-> err, Conn |-> c, Request |-> req]

IsWrapped(e) == DOMAIN e = {"Err", "Conn", "Request"}

\* The errors l.Accept() can return: the listener was closed, or the
\* operating system refused (a transient failure of accept).
ErrClosed == PlainError("use of closed network connection")
ErrAccept == PlainError("accept failed")
ErrListen == PlainError("listen failed")

----------------------------------------------------------------------------
\* New, src/socks5.go:70-103

\* The method codes of the two provided authenticators, and the method byte
\* that answers a greeting with no acceptable method.
NoAuth == 0
UserPassAuth == 2
noAcceptable == 255

\* Config.Credentials is nil or a store.
NoCredentials == <<>>

\* The authenticators: each answers GetCode() with its code.
NoAuthAuthenticator == [kind |-> "NoAuth", code |-> NoAuth, creds |-> NoCredentials]
UserPassAuthenticator(creds) == [kind |-> "UserPass", code |-> UserPassAuth, creds |-> creds]
CustomAuthenticator == [kind |-> "Custom", code |-> UserPassAuth + 1, creds |-> NoCredentials]

\* New with the test of conf.Credentials turned round.
DefaultAuthMethodsInverted(conf) ==
    IF Len(conf.AuthMethods) = 0
    THEN IF conf.Credentials = NoCredentials
         THEN <<UserPassAuthenticator(conf.Credentials)>>
         ELSE <<NoAuthAuthenticator>>
    ELSE conf.AuthMethods

\* conf.AuthMethods after src/socks5.go:72-78
DefaultAuthMethods(conf) ==
    IF Len(conf.AuthMethods) = 0
    THEN IF conf.Credentials # NoCredentials
         THEN <<UserPassAuthenticator(conf.Credentials)>>
         ELSE <<NoAuthAuthenticator>>
    ELSE conf.AuthMethods

\* for _, a := range conf.AuthMethods { server.authMethods[a.GetCode()] = a }
\* (src/socks5.go:96-100): a later authenticator replaces an earlier one of
\* the same code.
Registry(ms) ==
    [k \in {ms[i].code : i \in 1..Len(ms)} |->
        ms[CHOOSE i \in 1..Len(ms) :
              /\ ms[i].code = k
              /\ \A j \in (i + 1)..Len(ms) : ms[j].code # k]]

\* The registry of a server not yet constructed.
NoRegistry == <<>>

\* The Config of the README's example, &socks5.Config{}, after New.
ExampleConfig == [AuthMethods |-> <<NoAuthAuthenticator>>, Credentials |-> NoCredentials]

\* No call of CredentialStore.Valid.
NoCall == [kind |-> "none"]

----------------------------------------------------------------------------
\* s.lock is free or held by the goroutine in ListenAndServe or by a caller of
\* Shutdown.
Free == <<"free">>
ByMain == <<"main">>
ByCaller(p) == <<"shutdown", p>>

\* The initial state: a server as New returns it (src/socks5.go:90-94), about
\* to be started with ListenAndServe(network, addr) or with Serve(l) on a
\* listener the caller opened.

NewConn == [pc |-> "none", open |-> FALSE, closes |-> 0, trace |-> <<>>,
            sent |-> <<>>, replies |-> <<>>, ret |-> Nil, handled |-> <<>>]

Init ==
    /\ config = ExampleConfig
    /\ authMethods = Registry(config.AuthMethods)
    /\ given = <<>>
    /\ cred = NoCall
    /\ mode \in {"ListenAndServe", "Serve"}
    /\ hasErrorHandler \in BOOLEAN
    /\ shutdown = "open"
    /\ listener = "nil"
    /\ lock = Free
    /\ lstate = IF mode = "Serve" THEN "open" ELSE "none"
    /\ mainPc = IF mode = "Serve" THEN "serve" ELSE "listen"
    /\ serveRet = Nil
    /\ acceptPc = "notstarted"
    /\ acceptErr = Nil
    /\ acceptCalls = 0
    /\ shPc = [p \in Callers |-> "idle"]
    /\ conn = [c \in 1..MaxAccepts |-> NewConn]
    /\ calledIdle = FALSE
    /\ errBeforeShutdown = FALSE

\* The server used without its accept loop: the caller hands each of its
\* connections to ServeConn itself (src/socks5.go:164), concurrently.
ConnInit ==
    /\ config = ExampleConfig
    /\ authMethods = Registry(config.AuthMethods)
    /\ given = <<>>
    /\ cred = NoCall
    /\ mode = "ServeConn"
    /\ hasErrorHandler = FALSE
    /\ shutdown = "open"
    /\ listener = "nil"
    /\ lock = Free
    /\ lstate = "none"
    /\ mainPc = "none"
    /\ serveRet = Nil
    /\ acceptPc = "notstarted"
    /\ acceptErr = Nil
    /\ acceptCalls = 0
    /\ shPc = [p \in Callers |-> "idle"]
    /\ conn = [c \in 1..MaxConns |-> [NewConn EXCEPT !.pc = "version", !.open = TRUE]]
    /\ calledIdle = FALSE
    /\ errBeforeShutdown = FALSE

----------------------------------------------------------------------------
\* ListenAndServe, src/socks5.go:106-117

\* l, err := net.Listen(network, addr); if err != nil { return err }
NetListen ==
    /\ mainPc = "listen"
    /\ \/ /\ lstate' = "open"
          /\ mainPc' = "lock"
          /\ UNCHANGED serveRet
       \/ /\ mainPc' = "returned"
          /\ serveRet' = ErrListen
          /\ UNCHANGED lstate
    /\ UNCHANGED <<config, authMethods, given, cred, mode, hasErrorHandler, shutdown, listener, lock, acceptPc,
                   acceptErr, acceptCalls, shPc, conn, calledIdle, errBeforeShutdown>>

\* s.lock.Lock()
\* ListenAndServe going on to the store without taking the lock.
ListenLockNoLock ==
    /\ mainPc = "lock"
    /\ lock' = lock
    /\ mainPc' = "store"
    /\ UNCHANGED <<config, authMethods, given, cred, mode, hasErrorHandler, shutdown, listener, lstate, serveRet,
                   acceptPc, acceptErr, acceptCalls, shPc, conn, calledIdle,
                   errBeforeShutdown>>

\* s.lock.Lock() (src/socks5.go:112)
ListenLock ==
    /\ mainPc = "lock"
    /\ lock = Free
    /\ lock' = ByMain
    /\ mainPc' = "store"
    /\ UNCHANGED <<config, authMethods, given, cred, mode, hasErrorHandler, shutdown, listener, lstate, serveRet,
                   acceptPc, acceptErr, acceptCalls, shPc, conn, calledIdle,
                   errBeforeShutdown>>

\* A store of the listener that also empties the authenticator registry.
ListenStoreClearsRegistry ==
    /\ mainPc = "store"
    /\ listener' = "l"
    /\ authMethods' = NoRegistry
    /\ mainPc' = "unlock"
    /\ UNCHANGED <<config, given, cred, mode, hasErrorHandler, shutdown, lock, lstate, serveRet,
                   acceptPc, acceptErr, acceptCalls, shPc, conn, calledIdle,
                   errBeforeShutdown>>

\* s.listener = l
ListenStore ==
    /\ mainPc = "store"
    /\ listener' = "l"
    /\ mainPc' = "unlock"
    /\ UNCHANGED <<config, authMethods, given, cred, mode, hasErrorHandler, shutdown, lock, lstate, serveRet,
                   acceptPc, acceptErr, acceptCalls, shPc, conn, calledIdle,
                   errBeforeShutdown>>

\* s.lock.Unlock(); return s.Serve(l)
ListenUnlock ==
    /\ mainPc = "unlock"
    /\ lock' = Free
    /\ mainPc' = "serve"
    /\ UNCHANGED <<config, authMethods, given, cred, mode, hasErrorHandler, shutdown, listener, lstate, serveRet,
                   acceptPc, acceptErr, acceptCalls, shPc, conn, calledIdle,
                   errBeforeShutdown>>

----------------------------------------------------------------------------
\* Serve, src/socks5.go:120-149

\* conns, errs := make(chan ...); go func() { ... }(); the loop is entered.
ServeStart ==
    /\ mainPc = "serve"
    /\ mainPc' = "select"
    /\ acceptPc' = "accept"
    /\ UNCHANGED <<config, authMethods, given, cred, mode, hasErrorHandler, shutdown, listener, lock, lstate,
                   serveRet, acceptErr, acceptCalls, shPc, conn, calledIdle,
                   errBeforeShutdown>>

\* The next connection the listener hands out.
NextConn == acceptCalls + 1

\* conn, err := l.Accept() returns (src/socks5.go:126-131).  On a closed
\* listener it fails; on an open one it returns a connection or fails.
Accept ==
    /\ acceptPc = "accept"
    /\ \/ /\ lstate = "closed"
          /\ acceptErr' = ErrClosed
          /\ acceptPc' = "sendErr"
          /\ errBeforeShutdown' = (\A p \in Callers : shPc[p] = "idle")
          /\ UNCHANGED <<acceptCalls, conn>>
       \/ /\ lstate = "open"
          /\ acceptErr' = ErrAccept
          /\ acceptPc' = "sendErr"
          /\ errBeforeShutdown' = (\A p \in Callers : shPc[p] = "idle")
          /\ UNCHANGED <<acceptCalls, conn>>
       \/ /\ lstate = "open"
          /\ NextConn \in Conns
          /\ conn' = [conn EXCEPT ![NextConn] = [@ EXCEPT !.pc = "pending", !.open = TRUE]]
          /\ acceptCalls' = acceptCalls + 1
          /\ acceptPc' = "sendConn"
          /\ UNCHANGED <<acceptErr, errBeforeShutdown>>
    /\ UNCHANGED <<config, authMethods, given, cred, mode, hasErrorHandler, shutdown, listener, lock, lstate,
                   mainPc, serveRet, shPc, calledIdle>>

\* The connection the accept goroutine is sending on conns.
PendingConn == acceptCalls

\* The conns case with ServeConn called in the loop itself, without go: the
\* loop takes the next connection only when no earlier one is being served.
RecvConnInline ==
    /\ mainPc = "select"
    /\ acceptPc = "sendConn"
    /\ \A c \in Conns : conn[c].pc \in {"none", "pending", "done"}
    /\ conn' = [conn EXCEPT ![PendingConn] = [@ EXCEPT !.pc = "version"]]
    /\ acceptPc' = "accept"
    /\ UNCHANGED <<config, authMethods, given, cred, mode, hasErrorHandler, shutdown, listener, lock, lstate,
                   mainPc, serveRet, acceptErr, acceptCalls, shPc, calledIdle,
                   errBeforeShutdown>>

\* case conn := <-conns: go func() { ... s.ServeConn(conn) ... }()
\* together with the accept goroutine's conns <- conn (src/socks5.go:131, 137-142)
RecvConn ==
    /\ mainPc = "select"
    /\ acceptPc = "sendConn"
    /\ conn' = [conn EXCEPT ![PendingConn] = [@ EXCEPT !.pc = "version"]]
    /\ acceptPc' = "accept"
    /\ UNCHANGED <<config, authMethods, given, cred, mode, hasErrorHandler, shutdown, listener, lock, lstate,
                   mainPc, serveRet, acceptErr, acceptCalls, shPc, calledIdle,
                   errBeforeShutdown>>

\* What return err hands to the caller of Serve (src/socks5.go:144)
ServeReturnWrapped(err) == wrapError(err, PendingConn, NoRequest)
ServeReturn(err) == err

\* case err := <-errs: return err, together with the accept goroutine's
\* errs <- err; return (src/socks5.go:128-129, 143-144)
RecvErr ==
    /\ mainPc = "select"
    /\ acceptPc = "sendErr"
    /\ mainPc' = "returned"
    /\ serveRet' = ServeReturn(acceptErr)
    /\ acceptPc' = "done"
    /\ UNCHANGED <<config, authMethods, given, cred, mode, hasErrorHandler, shutdown, listener, lock, lstate,
                   acceptErr, acceptCalls, shPc, conn, calledIdle, errBeforeShutdown>>

\* case <-s.shutdown: return nil (src/socks5.go:145-146); a receive on a
\* closed channel is ready.
RecvShutdown ==
    /\ mainPc = "select"
    /\ shutdown = "closed"
    /\ mainPc' = "returned"
    /\ serveRet' = Nil
    /\ UNCHANGED <<config, authMethods, given, cred, mode, hasErrorHandler, shutdown, listener, lock, lstate,
                   acceptPc, acceptErr, acceptCalls, shPc, conn, calledIdle,
                   errBeforeShutdown>>

----------------------------------------------------------------------------
\* Shutdown, src/socks5.go:153-161

\* Serve is blocked in its loop with no connection accepted yet and no
\* Shutdown call begun.
ServeIdle ==
    /\ mode = "ListenAndServe"
    /\ mainPc = "select"
    /\ acceptPc = "accept"
    /\ acceptCalls = 0
    /\ shutdown = "open"
    /\ \A p \in Callers : shPc[p] = "idle"

\* s.lock.Lock(); defer s.lock.Unlock()
ShutdownLock(p) ==
    /\ shPc[p] = "idle"
    /\ lock = Free
    /\ lock' = ByCaller(p)
    /\ shPc' = [shPc EXCEPT ![p] = "locked"]
    /\ calledIdle' = (calledIdle \/ ServeIdle)
    /\ UNCHANGED <<config, authMethods, given, cred, mode, hasErrorHandler, shutdown, listener, lstate, mainPc,
                   serveRet, acceptPc, acceptErr, acceptCalls, conn,
                   errBeforeShutdown>>

\* close(s.shutdown): closing a closed channel panics, and the panic runs the
\* deferred Unlock and leaves Shutdown.
ShutdownCloseChan(p) ==
    /\ shPc[p] = "locked"
    /\ IF shutdown = "open"
       THEN /\ shutdown' = "closed"
            /\ shPc' = [shPc EXCEPT ![p] = "chanClosed"]
            /\ UNCHANGED lock
       ELSE /\ shPc' = [shPc EXCEPT ![p] = "panicked"]
            /\ lock' = Free
            /\ UNCHANGED shutdown
    /\ UNCHANGED <<config, authMethods, given, cred, mode, hasErrorHandler, listener, lstate, mainPc, serveRet,
                   acceptPc, acceptErr, acceptCalls, conn, calledIdle,
                   errBeforeShutdown>>

\* A Shutdown that also closed the connections being served.
ShutdownCloseListenerAndConns(p) ==
    /\ shPc[p] = "chanClosed"
    /\ lstate' = IF listener # "nil" THEN "closed" ELSE lstate
    /\ conn' = [c \in Conns |->
                  IF conn[c].open THEN [conn[c] EXCEPT !.open = FALSE] ELSE conn[c]]
    /\ shPc' = [shPc EXCEPT ![p] = "listenerClosed"]
    /\ UNCHANGED <<config, authMethods, given, cred, mode, hasErrorHandler, shutdown, listener, lock, mainPc,
                   serveRet, acceptPc, acceptErr, acceptCalls, calledIdle,
                   errBeforeShutdown>>

\* if s.listener != nil { s.listener.Close() }
ShutdownCloseListener(p) ==
    /\ shPc[p] = "chanClosed"
    /\ lstate' = IF listener # "nil" THEN "closed" ELSE lstate
    /\ shPc' = [shPc EXCEPT ![p] = "listenerClosed"]
    /\ UNCHANGED <<config, authMethods, given, cred, mode, hasErrorHandler, shutdown, listener, lock, mainPc,
                   serveRet, acceptPc, acceptErr, acceptCalls, conn, calledIdle,
                   errBeforeShutdown>>

\* the deferred s.lock.Unlock(), and Shutdown returns
ShutdownReturn(p) ==
    /\ shPc[p] = "listenerClosed"
    /\ lock' = Free
    /\ shPc' = [shPc EXCEPT ![p] = "done"]
    /\ UNCHANGED <<config, authMethods, given, cred, mode, hasErrorHandler, shutdown, listener, lstate, mainPc,
                   serveRet, acceptPc, acceptErr, acceptCalls, conn, calledIdle,
                   errBeforeShutdown>>

----------------------------------------------------------------------------
\* ServeConn, src/socks5.go:164-205, run by the task Serve starts for each
\* connection (src/socks5.go:138-142).  Each read or write on the connection is
\* a step of its own.  conn[c].trace logs the phases ServeConn starts, each
\* with its outcome; conn[c].sent the reply codes it hands to sendReply, and
\* conn[c].replies those of them whose write succeeded.

Log(r, phase, outcome) == [r EXCEPT !.trace = Append(@, <<phase, outcome>>)]

\* conn.Close()
Close(r) == [r EXCEPT !.open = FALSE, !.closes = @ + 1]

\* A return that does not run the deferred Close.
ReturnNoClose(r, err) == [r EXCEPT !.pc = "returned", !.ret = err]

\* return err, which runs the deferred conn.Close() (src/socks5.go:165)
Return(r, err) == [Close(r) EXCEPT !.pc = "returned", !.ret = err]

\* The outcomes of the calls ServeConn makes into the rest of the package.
\* s.authenticate: success, no acceptable method (0xFF written), a failed
\* username/password subnegotiation (status 1 written), or a failed read or
\* write.
authenticate == {"ok", "noAcceptable", "userAuthFailed", "ioError"}
\* NewRequest: a request, the unrecognized address type, or another
\* malformed frame or failed read.
NewRequest == {"ok", "unrecognizedAddrType", "malformed"}
\* sendReply: the reply was written, or the write failed.
sendReply == {"ok", "ioError"}
\* s.handleRequest: nil or an error.
handleRequest == {"ok", "error"}

\* A ServeConn that goes on to authenticate whatever the version byte is.
ReadVersionNoCheck(c) ==
    /\ conn[c].pc = "version"
    /\ \E v \in VersionBytes :
          conn' = [conn EXCEPT ![c] =
                     [Log(@, "version", IF v # socks5Version THEN "unsupported" ELSE "ok")
                         EXCEPT !.pc = "auth"]]
    /\ UNCHANGED serverVars

\* bufConn.Read(version) and the version check (src/socks5.go:169-177)
ReadVersion(c) ==
    /\ conn[c].pc = "version"
    /\ \/ conn' = [conn EXCEPT ![c] =
                     Return(Log(@, "version", "readError"),
                            wrapError(<<"read version byte", "readError">>, c, NoRequest))]
       \/ \E v \in VersionBytes :
             conn' = [conn EXCEPT ![c] =
                        IF v # socks5Version
                        THEN Return(Log(@, "version", "unsupported"),
                                    wrapError(<<"unsupported socks version", "unsupported">>, c, NoRequest))
                        ELSE [Log(@, "version", "ok") EXCEPT !.pc = "auth"]]
    /\ UNCHANGED serverVars

\* An authentication failure that went on to the request all the same.
AuthenticateIgnoringFailure(c) ==
    /\ conn[c].pc = "auth"
    /\ \E out \in authenticate :
          conn' = [conn EXCEPT ![c] = [Log(@, "auth", out) EXCEPT !.pc = "request"]]
    /\ UNCHANGED serverVars

\* authContext, err := s.authenticate(conn, bufConn) (src/socks5.go:180-183)
Authenticate(c) ==
    /\ conn[c].pc = "auth"
    /\ \E out \in authenticate :
          conn' = [conn EXCEPT ![c] =
                     IF out # "ok"
                     THEN Return(Log(@, "auth", out),
                                 wrapError(<<"authenticate", out>>, c, NoRequest))
                     ELSE [Log(@, "auth", "ok") EXCEPT !.pc = "request"]]
    /\ UNCHANGED serverVars

\* A ServeConn that answers every decode failure with a reply.
DecodeRequestAlwaysReplies(c) ==
    /\ conn[c].pc = "request"
    /\ \E out \in NewRequest :
          conn' = [conn EXCEPT ![c] =
                     IF out = "ok"
                     THEN [Log(@, "request", "ok") EXCEPT !.pc = "handle"]
                     ELSE [Log(@, "request", out) EXCEPT !.pc = "sendReply"]]
    /\ UNCHANGED serverVars

\* request, err := NewRequest(bufConn) (src/socks5.go:185-193)
DecodeRequest(c) ==
    /\ conn[c].pc = "request"
    /\ \E out \in NewRequest :
          conn' = [conn EXCEPT ![c] =
                     CASE out = "ok" -> [Log(@, "request", "ok") EXCEPT !.pc = "handle"]
                       [] out = "unrecognizedAddrType" ->
                            [Log(@, "request", out) EXCEPT !.pc = "sendReply"]
                       [] OTHER ->
                            Return(Log(@, "request", out),
                                   wrapError(<<"read dst addr", out>>, c, NoRequest))]
    /\ UNCHANGED serverVars

\* sendReply(conn, addrTypeNotSupported, nil) (src/socks5.go:187-192)
SendReply(c) ==
    /\ conn[c].pc = "sendReply"
    /\ \E out \in sendReply :
          conn' = [conn EXCEPT ![c] =
                     IF out # "ok"
                     THEN Return([Log(@, "sendReply", out) EXCEPT
                                     !.sent = Append(@, addrTypeNotSupported)],
                                 wrapError(<<"send reply", out>>, c, NoRequest))
                     ELSE Return([Log(@, "sendReply", "ok") EXCEPT
                                     !.sent = Append(@, addrTypeNotSupported),
                                     !.replies = Append(@, addrTypeNotSupported)],
                                 wrapError(<<"read dst addr", "unrecognizedAddrType">>,
                                           c, NoRequest))]
    /\ UNCHANGED serverVars

\* s.handleRequest(request, conn) (src/socks5.go:194-204)
HandleRequest(c) ==
    /\ conn[c].pc = "handle"
    /\ \E out \in handleRequest :
          conn' = [conn EXCEPT ![c] =
                     IF out # "ok"
                     THEN Return(Log(@, "handle", out),
                                 wrapError(<<"handle request", out>>, c, RequestOf(c)))
                     ELSE Return(Log(@, "handle", "ok"), Nil)]
    /\ UNCHANGED serverVars

\* A task that hands every result of ServeConn to the handler, nil included.
TaskFinishAlways(c) ==
    /\ conn[c].pc = "returned"
    /\ conn' = [conn EXCEPT ![c] =
                  [@ EXCEPT !.pc = "done", !.handled = Append(@, conn[c].ret)]]
    /\ UNCHANGED serverVars

\* if err := s.ServeConn(conn); err != nil && s.config.ErrorHandler != nil {
\*     s.config.ErrorHandler(err) }   (src/socks5.go:139-141)
TaskFinish(c) ==
    /\ conn[c].pc = "returned"
    /\ conn' = [conn EXCEPT ![c] =
                  [@ EXCEPT !.pc = "done",
                            !.handled = IF conn[c].ret # Nil /\ hasErrorHandler
                                        THEN Append(@, conn[c].ret)
                                        ELSE @]]
    /\ UNCHANGED serverVars

----------------------------------------------------------------------------

Next ==
    \/ NetListen
    \/ ListenLock
    \/ ListenStore
    \/ ListenUnlock
    \/ ServeStart
    \/ Accept
    \/ RecvConn
    \/ RecvErr
    \/ RecvShutdown
    \/ \E p \in Callers : ShutdownLock(p)
    \/ \E p \in Callers : ShutdownCloseChan(p)
    \/ \E p \in Callers : ShutdownCloseListener(p)
    \/ \E p \in Callers : ShutdownReturn(p)
    \/ \E c \in Conns : ReadVersion(c)
    \/ \E c \in Conns : Authenticate(c)
    \/ \E c \in Conns : DecodeRequest(c)
    \/ \E c \in Conns : SendReply(c)
    \/ \E c \in Conns : HandleRequest(c)
    \/ \E c \in Conns : TaskFinish(c)

Spec == Init /\ [][Next]_vars

ConnNext ==
    \/ \E c \in Conns : ReadVersion(c)
    \/ \E c \in Conns : Authenticate(c)
    \/ \E c \in Conns : DecodeRequest(c)
    \/ \E c \in Conns : SendReply(c)
    \/ \E c \in Conns : HandleRequest(c)

ConnSpec == ConnInit /\ [][ConnNext]_vars

----------------------------------------------------------------------------
\* Serve(l) on a listener that hands out several connections, with no
\* Shutdown call (src/socks5.go:120-149).

ServeInit ==
    /\ config = ExampleConfig
    /\ authMethods = Registry(config.AuthMethods)
    /\ given = <<>>
    /\ cred = NoCall
    /\ mode = "Serve"
    /\ hasErrorHandler \in BOOLEAN
    /\ shutdown = "open"
    /\ listener = "nil"
    /\ lock = Free
    /\ lstate = "open"
    /\ mainPc = "serve"
    /\ serveRet = Nil
    /\ acceptPc = "notstarted"
    /\ acceptErr = Nil
    /\ acceptCalls = 0
    /\ shPc = [p \in Callers |-> "idle"]
    /\ conn = [c \in 1..MaxServed |-> NewConn]
    /\ calledIdle = FALSE
    /\ errBeforeShutdown = FALSE

ServeNext ==
    \/ ServeStart
    \/ Accept
    \/ RecvConn
    \/ RecvErr
    \/ \E c \in Conns : ReadVersion(c)
    \/ \E c \in Conns : Authenticate(c)
    \/ \E c \in Conns : DecodeRequest(c)
    \/ \E c \in Conns : SendReply(c)
    \/ \E c \in Conns : HandleRequest(c)
    \/ \E c \in Conns : TaskFinish(c)

ServeSpec == ServeInit /\ [][ServeNext]_vars

----------------------------------------------------------------------------
\* New(conf) on every Config of the bounds.

\* The authenticators a caller may list in Config.AuthMethods, and the
\* values of Config.Credentials.
AuthChoices == {NoAuthAuthenticator, UserPassAuthenticator(<<"own store">>),
                CustomAuthenticator}
AuthMethodLists == UNION {[1..n -> AuthChoices] : n \in 0..MaxAuthMethods}
CredentialChoices == {NoCredentials, <<"store">>}

NewInit ==
    /\ config \in [AuthMethods : AuthMethodLists, Credentials : CredentialChoices]
    /\ authMethods = NoRegistry
    /\ given = config.AuthMethods
    /\ cred = NoCall
    /\ mode = "New"
    /\ hasErrorHandler = FALSE
    /\ shutdown = "open"
    /\ listener = "nil"
    /\ lock = Free
    /\ lstate = "none"
    /\ mainPc = "new"
    /\ serveRet = Nil
    /\ acceptPc = "notstarted"
    /\ acceptErr = Nil
    /\ acceptCalls = 0
    /\ shPc = [p \in Callers |-> "idle"]
    /\ conn = <<>>
    /\ calledIdle = FALSE
    /\ errBeforeShutdown = FALSE

\* server, err := New(conf): conf.AuthMethods is filled in place and the
\* registry built from it (src/socks5.go:70-103).
New ==
    /\ mainPc = "new"
    /\ config' = [config EXCEPT !.AuthMethods = DefaultAuthMethods(config)]
    /\ authMethods' = Registry(config'.AuthMethods)
    /\ mainPc' = "constructed"
    /\ UNCHANGED <<given, cred, mode, hasErrorHandler, shutdown, listener, lock,
                   lstate, serveRet, acceptPc, acceptErr, acceptCalls, shPc, conn,
                   calledIdle, errBeforeShutdown>>

NewNext == New

NewSpec == NewInit /\ [][NewNext]_vars

\* The method the handshake selects: the first the client offers that the
\* registry holds, else "no acceptable method".
SelectMethod(offered, registry) ==
    LET S == {i \in 1..Len(offered) : offered[i] \in DOMAIN registry}
    IN IF S = {} THEN noAcceptable
       ELSE offered[CHOOSE i \in S : \A j \in S : i <= j]

\* The method lists of a client's greeting.
Offers == {<<NoAuth>>, <<UserPassAuth>>, <<NoAuth, UserPassAuth>>,
           <<UserPassAuth, NoAuth>>}

----------------------------------------------------------------------------
\* CredentialStore, src/credentials.go

Users == {"alice", "bob"}
Passwords == {"", "secret"}

\* StaticCredentials: every map from some of the users to passwords.
StaticStores == UNION {[D -> Passwords] : D \in SUBSET Users}
\* CredentialStoreFunc: every function of (user, password).
StoreFuncs == [Users \X Passwords -> BOOLEAN]

\* Valid without the test of ok: the lookup of an absent user gives "".
StaticCredentialsValidNoOk(s, user, password) ==
    LET pass == IF user \in DOMAIN s THEN s[user] ELSE ""
    IN password = pass

\* func (s StaticCredentials) Valid(user, password string) bool
\* (src/credentials.go:17-23); pass, ok := s[user] gives "" for an absent user.
StaticCredentialsValid(s, user, password) ==
    LET ok == user \in DOMAIN s
        pass == IF ok THEN s[user] ELSE ""
    IN IF ~ok THEN FALSE ELSE password = pass

\* func (f CredentialStoreFunc) Valid(user, password string) bool
\* (src/credentials.go:10-12)
CredentialStoreFuncValid(f, user, password) == f[<<user, password>>]

CredInit ==
    /\ cred \in [kind : {"StaticCredentials"}, store : StaticStores, user : Users,
                  password : Passwords, called : {FALSE}, result : {FALSE}]
              \cup [kind : {"CredentialStoreFunc"}, store : StoreFuncs, user : Users,
                     password : Passwords, called : {FALSE}, result : {FALSE}]
    /\ config = ExampleConfig
    /\ authMethods = Registry(config.AuthMethods)
    /\ given = <<>>
    /\ mode = "Valid"
    /\ hasErrorHandler = FALSE
    /\ shutdown = "open"
    /\ listener = "nil"
    /\ lock = Free
    /\ lstate = "none"
    /\ mainPc = "none"
    /\ serveRet = Nil
    /\ acceptPc = "notstarted"
    /\ acceptErr = Nil
    /\ acceptCalls = 0
    /\ shPc = [p \in Callers |-> "idle"]
    /\ conn = <<>>
    /\ calledIdle = FALSE
    /\ errBeforeShutdown = FALSE

\* StaticCredentials(m).Valid(user, password)
StaticValid ==
    /\ cred.kind = "StaticCredentials"
    /\ ~cred.called
    /\ cred' = [cred EXCEPT !.called = TRUE,
                            !.result = StaticCredentialsValid(cred.store, cred.user,
                                                              cred.password)]
    /\ UNCHANGED <<config, authMethods, given, mode, hasErrorHandler, shutdown,
                   listener, lock, lstate, mainPc, serveRet, acceptPc, acceptErr,
                   acceptCalls, shPc, conn, calledIdle, errBeforeShutdown>>

\* CredentialStoreFunc(f).Valid(user, password)
FuncValid ==
    /\ cred.kind = "CredentialStoreFunc"
    /\ ~cred.called
    /\ cred' = [cred EXCEPT !.called = TRUE,
                            !.result = CredentialStoreFuncValid(cred.store, cred.user,
                                                                cred.password)]
    /\ UNCHANGED <<config, authMethods, given, mode, hasErrorHandler, shutdown,
                   listener, lock, lstate, mainPc, serveRet, acceptPc, acceptErr,
                   acceptCalls, shPc, conn, calledIdle, errBeforeShutdown>>

CredNext == StaticValid \/ FuncValid

CredSpec == CredInit /\ [][CredNext]_vars

----------------------------------------------------------------------------
\* Properties.

\* The task of connection c is inside ServeConn.
Serving(c) == conn[c].pc \in {"version", "auth", "request", "sendReply", "handle"}
\* ServeConn has returned for connection c.
Returned(c) == conn[c].pc \in {"returned", "done"}

\* C1: whichever phase ServeConn ends in, it closes conn exactly once: no
\* close before it returns, the connection closed once it has returned, and
\* never a second close.
C1_ClosedExactlyOnce ==
    \A c \in Conns :
        /\ conn[c].closes <= 1
        /\ Returned(c) => conn[c].closes = 1 /\ ~conn[c].open
        /\ ~Returned(c) => conn[c].closes = 0

\* One connection served to full success and another ended by an
\* authentication failure, both returned from ServeConn.
C1_Witness ==
    \E c, d \in Conns :
        /\ Returned(c) /\ conn[c].ret = Nil
        /\ Returned(d) /\ conn[d].ret = wrapError(<<"authenticate", "noAcceptable">>, d, NoRequest)

\* C2: a Shutdown called while Serve (started by ListenAndServe) is blocked in
\* its loop with no connection makes Serve return nil, never the error of the
\* Accept that Shutdown's closing of the listener made fail.  (An Accept that
\* fails by itself, for another reason, is left out.)
C2_ServeReturnsNil ==
    (calledIdle /\ mainPc = "returned" /\ acceptErr # ErrAccept) => serveRet = Nil

\* C3: once a Shutdown has returned and the accept loop is running, the
\* listening socket the loop accepts on is closed.
C3_ListenerClosed ==
    ((\E p \in Callers : shPc[p] = "done") /\ acceptPc # "notstarted")
        => lstate = "closed"

\* C4: no accepted connection is left neither served nor closed: once Serve
\* has returned, nothing receives from conns any more, so no connection may
\* still be waiting in the accept goroutine to be handed over.
C4_AcceptedIsServed ==
    mainPc = "returned" => \A c \in Conns : conn[c].pc # "pending"

\* C5: a step of Shutdown changes nothing of any connection: it neither
\* closes a connection nor moves or ends its task.
C5_ShutdownLeavesConns == [][shPc' # shPc => conn' = conn]_vars

\* A Shutdown has closed the listener while a connection is being served,
\* open, in request handling.
C5_Witness ==
    /\ \E p \in Callers : shPc[p] = "listenerClosed"
    /\ lstate = "closed"
    /\ \E c \in Conns : conn[c].pc = "handle" /\ conn[c].open

\* C6: every call of Shutdown completes without failure, a second one
\* included.
C6_ShutdownNeverPanics == \A p \in Callers : shPc[p] # "panicked"

\* C7: at the moment a Shutdown returns, no connection is still being served.
C7_ShutdownWaits ==
    [][(\E p \in Callers : shPc[p] # "done" /\ shPc'[p] = "done")
          => \A c \in Conns : ~Serving(c)']_vars

\* C8: ErrorHandler is called exactly once, with the error, for a connection
\* whose ServeConn returned a non-nil error when a handler is configured, and
\* not at all otherwise; and Serve returns only nil on shutdown or the accept
\* (or listen) error, never a connection's error.
C8_ErrorHandler ==
    /\ \A c \in Conns :
          /\ conn[c].pc = "done" =>
                conn[c].handled = IF conn[c].ret # Nil /\ hasErrorHandler
                                  THEN <<conn[c].ret>> ELSE <<>>
          /\ conn[c].pc # "done" => conn[c].handled = <<>>
    /\ mainPc = "returned" =>
          /\ ~IsWrapped(serveRet)
          /\ \/ serveRet = Nil /\ shutdown = "closed"
             \/ serveRet = acceptErr /\ acceptPc = "done"
             \/ serveRet = ErrListen /\ acceptPc = "notstarted"

\* A connection's error has been handed to the handler, and Serve is still
\* in its loop with the accept goroutine back in Accept.
C8_Witness ==
    /\ hasErrorHandler
    /\ mainPc = "select"
    /\ acceptPc = "accept"
    /\ \E c \in Conns :
          /\ conn[c].pc = "done" /\ conn[c].ret # Nil /\ conn[c].handled = <<conn[c].ret>>

\* Every accepted connection has its own task.
AllHandedOver == \A c \in Conns : conn[c].pc # "pending"

\* C9 as stated: if Accept returned an error e when no Shutdown had been
\* called, Serve returns exactly e, the accept goroutine has ended, and the
\* connections accepted before have their tasks.
C9_AsStated ==
    (errBeforeShutdown /\ mainPc = "returned") =>
        /\ serveRet = acceptErr
        /\ acceptPc = "done"
        /\ AllHandedOver

\* C9 amended: the same, provided the shutdown signal has not been raised by
\* the time Serve returns.
C9_ServeReturnsAcceptError ==
    (errBeforeShutdown /\ mainPc = "returned" /\ shutdown = "open") =>
        /\ serveRet = acceptErr
        /\ acceptPc = "done"
        /\ AllHandedOver

\* Serve has returned the accept error, with no shutdown, while a connection
\* accepted before is still being served by its task.
C9_Witness ==
    /\ errBeforeShutdown
    /\ mainPc = "returned"
    /\ shutdown = "open"
    /\ serveRet = ErrAccept
    /\ \E c \in Conns : Serving(c) /\ conn[c].open

\* The four phases of ServeConn, in order.  (The reply to an unrecognized
\* address type belongs to the request decode phase.)
PhaseOrder == <<"version", "auth", "request", "handle">>
IsPhase(e) == e[1] # "sendReply"
Phases(c) == SelectSeq(conn[c].trace, IsPhase)

\* C10: the phases ServeConn starts are an initial part of version, auth,
\* request, handle (so each at most once, in this order), every phase but
\* the last started has succeeded, and after a failed authentication no
\* request was read, no request handled, and the connection is closed.
C10_PhaseOrder ==
    \A c \in Conns :
        LET t == Phases(c) IN
        /\ Len(t) <= Len(PhaseOrder)
        /\ \A i \in 1..Len(t) : t[i][1] = PhaseOrder[i]
        /\ \A i \in 1..(Len(t) - 1) : t[i][2] = "ok"
        /\ (\E i \in 1..Len(t) : t[i][1] = "auth" /\ t[i][2] # "ok") =>
              /\ Returned(c)
              /\ ~conn[c].open
              /\ \A i \in 1..Len(t) : t[i][1] \notin {"request", "handle"}

\* A connection closed after bad credentials, with only the version check and
\* the authentication run.
C10_Witness ==
    \E c \in Conns :
        /\ conn[c].trace = << <<"version", "ok">>, <<"auth", "userAuthFailed">> >>
        /\ Returned(c)
        /\ ~conn[c].open

\* The outcome of a phase of ServeConn on connection c, "none" when the
\* phase has not been run.
PhaseOutcome(c, phase) ==
    LET S == {i \in 1..Len(conn[c].trace) : conn[c].trace[i][1] = phase}
    IN IF S = {} THEN "none" ELSE conn[c].trace[CHOOSE i \in S : TRUE][2]

\* C11: after a failed request decode ServeConn hands a reply to sendReply
\* exactly when the failure is the unrecognized address type, then exactly
\* one, with code 8, while the connection is still open; after any other
\* decode failure none.  Either way it returns a non-nil error and request
\* handling is not run.
C11_DecodeFailureReply ==
    \A c \in Conns :
        LET out == PhaseOutcome(c, "request") IN
        out \notin {"none", "ok"} =>
            /\ PhaseOutcome(c, "handle") = "none"
            /\ IF conn[c].pc = "sendReply"
               THEN /\ out = "unrecognizedAddrType"
                    /\ conn[c].sent = <<>>
                    /\ conn[c].open /\ conn[c].closes = 0
               ELSE /\ Returned(c)
                    /\ conn[c].ret # Nil
                    /\ ~conn[c].open
                    /\ conn[c].sent = IF out = "unrecognizedAddrType"
                                      THEN <<addrTypeNotSupported>> ELSE <<>>
            /\ conn[c].replies \in {<<>>, conn[c].sent}

\* One connection closed after the reply with code 8 to an unrecognized
\* address type, another after a malformed request and no reply.
C11_Witness ==
    \E c, d \in Conns :
        /\ Returned(c) /\ PhaseOutcome(c, "request") = "unrecognizedAddrType"
        /\ conn[c].replies = <<addrTypeNotSupported>>
        /\ Returned(d) /\ PhaseOutcome(d, "request") = "malformed"
        /\ conn[d].sent = <<>>

\* C12: when the version byte cannot be read or is not 5, ServeConn returns
\* a non-nil error having run nothing else: no authentication, no request
\* read, no reply; and the connection is closed.
C12_VersionFailure ==
    \A c \in Conns :
        PhaseOutcome(c, "version") \notin {"none", "ok"} =>
            /\ Returned(c)
            /\ conn[c].ret # Nil
            /\ Len(conn[c].trace) = Len(<<"version">>)
            /\ conn[c].sent = <<>>
            /\ conn[c].replies = <<>>
            /\ ~conn[c].open

\* One connection closed after a version byte other than 5, another after a
\* failed read of the version byte.
C12_Witness ==
    \E c, d \in Conns :
        /\ Returned(c) /\ PhaseOutcome(c, "version") = "unsupported"
        /\ Returned(d) /\ PhaseOutcome(d, "version") = "readError"

\* C13 as stated: whatever AuthMethods is, a Config with nil Credentials
\* gives a registry that holds the no-auth method.
C13_AsStated ==
    (mainPc = "constructed" /\ config.Credentials = NoCredentials)
        => NoAuth \in DOMAIN authMethods

\* C13 amended: a Config with nil Credentials and an empty AuthMethods gives
\* a registry that holds the no-auth authenticator under code 0, and the
\* handshake selects no-auth for every client that offers it.
C13_NoAuthByDefault ==
    (mainPc = "constructed" /\ config.Credentials = NoCredentials /\ given = <<>>)
        => /\ NoAuth \in DOMAIN authMethods
           /\ authMethods[NoAuth] = NoAuthAuthenticator
           /\ \A o \in Offers :
                 (\E i \in 1..Len(o) : o[i] = NoAuth)
                     => SelectMethod(o, authMethods) = NoAuth

\* New has built the server of a Config with neither AuthMethods nor
\* Credentials.
C13_Witness ==
    /\ mainPc = "constructed"
    /\ config.Credentials = NoCredentials
    /\ given = <<>>
    /\ DOMAIN authMethods = {NoAuth}

\* C14: a Config with Credentials gives a registry that holds the
\* username/password authenticator of these Credentials under code 2,
\* besides every method listed in AuthMethods.
C14_UserPassEnabled ==
    (mainPc = "constructed" /\ config.Credentials # NoCredentials)
        => /\ UserPassAuth \in DOMAIN authMethods
           /\ authMethods[UserPassAuth] = UserPassAuthenticator(config.Credentials)
           /\ \A i \in 1..Len(given) : given[i].code \in DOMAIN authMethods

\* C15: StaticCredentials(m).Valid(user, password) is true exactly when user
\* is a key of m and m[user] is password; CredentialStoreFunc(f).Valid(user,
\* password) is f(user, password).
C15_Valid ==
    cred.called =>
        /\ cred.kind = "StaticCredentials" =>
              cred.result = (/\ cred.user \in DOMAIN cred.store
                             /\ cred.store[cred.user] = cred.password)
        /\ cred.kind = "CredentialStoreFunc" =>
              cred.result = cred.store[<<cred.user, cred.password>>]

\* A user absent from the map has been rejected with the empty password.
C15_Witness ==
    /\ cred.called
    /\ cred.kind = "StaticCredentials"
    /\ cred.user \notin DOMAIN cred.store
    /\ cred.password = ""
    /\ cred.result = FALSE

\* The message ServeConn puts before the cause of the failure of a step.
ErrorPrefix(e) ==
    CASE e = <<"version", "readError">> -> "read version byte"
      [] e[1] = "version" -> "unsupported socks version"
      [] e[1] = "auth" -> "authenticate"
      [] e[1] = "request" -> "read dst addr"
      [] e = <<"sendReply", "ok">> -> "read dst addr"
      [] e[1] = "sendReply" -> "send reply"
      [] OTHER -> "handle request"

\* C16: a non-nil error of ServeConn is an *Error with the connection served
\* as Conn, the cause of the step that failed as Err, and as Request nil for
\* a failure up to the request decode and the decoded request for a failure
\* of request handling.
C16_WrappedError ==
    \A c \in Conns :
        (Returned(c) /\ conn[c].ret # Nil) =>
            LET e == conn[c].ret
                last == conn[c].trace[Len(conn[c].trace)]
            IN /\ IsWrapped(e)
               /\ e.Conn = c
               /\ e.Err[1] = ErrorPrefix(last)
               /\ e.Err[2] # "ok"
               /\ e.Request = IF last[1] = "handle" THEN RequestOf(c) ELSE NoRequest

\* One connection whose request handling failed, its error carrying the
\* request, and one whose authentication failed, its error carrying none.
C16_Witness ==
    \E c, d \in Conns :
        /\ Returned(c) /\ PhaseOutcome(c, "handle") = "error"
        /\ conn[c].ret.Request = RequestOf(c)
        /\ Returned(d) /\ PhaseOutcome(d, "auth") = "noAcceptable"
        /\ conn[d].ret.Request = NoRequest

C18_RegistryNeverModified ==
    /\ config = ExampleConfig
    /\ authMethods = Registry(ExampleConfig.AuthMethods)

\* A connection task has authenticated, after ListenAndServe stored its
\* listener and a Shutdown ran, and the registry is the one New built.
C18_Witness ==
    /\ listener = "l"
    /\ \E p \in Callers : shPc[p] = "done"
    /\ \E c \in Conns : PhaseOutcome(c, "auth") = "ok"
    /\ authMethods = Registry(ExampleConfig.AuthMethods)

\* C19: the listener reference is written only by a ListenAndServe holding
\* the lock, and read only by a Shutdown holding the lock, which no other
\* task holds at the same time; the shutdown channel is closed only by a
\* Shutdown holding the lock.
C19_UnderLock ==
    [][/\ listener' # listener => (lock = ByMain /\ lock' = ByMain)
       /\ \A p \in Callers :
            (shPc[p] = "chanClosed" /\ shPc'[p] # "chanClosed")
                => (lock = ByCaller(p) /\ mainPc \notin {"store", "unlock"})
       /\ shutdown' # shutdown =>
            \E p \in Callers : /\ shPc[p] = "locked"
                               /\ lock = ByCaller(p)
                               /\ lock' = lock]_vars

\* ListenAndServe holds the lock with the listener stored, after a Shutdown
\* closed the shutdown channel and read the still nil listener, and while
\* another Shutdown waits for the lock.
C19_Witness ==
    /\ mainPc = "unlock"
    /\ listener = "l"
    /\ lock = ByMain
    /\ shutdown = "closed"
    /\ \E p \in Callers : shPc[p] = "done"
    /\ \E p \in Callers : shPc[p] = "idle"

\* C20: once Serve has returned, its accept goroutine is not blocked sending
\* on conns or on errs, which nothing receives from any more.
C20_AcceptGoroutineEnds ==
    mainPc = "returned" => acceptPc \notin {"sendConn", "sendErr"}

====
